---------------------------- MODULE Spec2Model ----------------------------
(***************************************************************************)
(* A model of the HTML template adapter in src/html/html.go: the render    *)
(* adapter (HTMLTemplate) with its read/write lock and development-mode    *)
(* reload, the translation table (I18nConfig) and the dict helper.         *)
(***************************************************************************)
EXTENDS Integers, Sequences, FiniteSets, TLC

(***************************************************************************)
(* Bounds of the model.                                                    *)
(***************************************************************************)
\* The largest content version a template file on disk can reach.
MaxVer == 2
\* The clock that stamps lastLoad saturates here.
MaxTime == 1
\* The most i18n helper calls one template execution makes.
MaxHelperCalls == 1

\* The goroutines that call into one engine.
Procs == {"g1", "g2"}
None == "none"

\* The files TemplateDir/pattern can match; ParseGlob names each template
\* after its file.
Files == {"base", "page"}
\* The names a template set can hold: the root made by template.New(""),
\* one per file, and "content" ({{define "content"}} in a file, or the
\* wrapper RenderWithLayout synthesizes).
TmplNames == {"base", "page", "", "content"}
\* The names callers ask Render and HasTemplate for.
RenderNames == {"page", "content"}
\* The views and layouts callers pass to RenderWithLayout.
Views == {"page"}
Layouts == {"base", ""}

\* A file's content: 0 is no file, 1..MaxVer are successive well-formed
\* versions, Bad is a version with a syntax error.  The layout file is
\* there in its one version or not at all; the page file takes them all.
Bad == MaxVer + 1
Content(f) == IF f = "base" THEN {0, 1} ELSE 0..Bad

VARIABLES
    cfg,        \* h.config: Development, DefaultLayout, I18n configured
    disk,       \* the template files under TemplateDir
    ht,         \* h.t: the live parsed template set
    lastLoad,   \* h.lastLoad
    mu,         \* h.mu, the lock of the template set
    pc,         \* where each goroutine is in its call
    call,       \* the call each goroutine is making
    ret,        \* what the call returned
    out,        \* what the call wrote to its sink
    built,      \* static mode: the template set CreateEngine returned
    dirty,      \* development mode: a file changed since the render call began
    helper,     \* the i18n helper each executing template is calling
    i18n,       \* config.I18n: DefaultLang, Translations, currentLang
    imu,        \* i.mu, the lock of the translation table
    icall,      \* the last translation-table call and its result
    values,     \* the argument list handed to dict
    dres        \* what dict returned

engineVars == <<cfg, disk, ht, lastLoad, mu, pc, call, ret, out, built, dirty, helper>>
i18nVars == <<i18n, imu, icall>>
dictVars == <<values, dres>>
vars == <<cfg, disk, ht, lastLoad, mu, pc, call, ret, out, built, dirty, helper,
          i18n, imu, icall, values, dres>>

(***************************************************************************)
(* Template sets (html/template, as this code uses it).                    *)
(***************************************************************************)
NoTemplate == [kind |-> "none", src |-> "", ver |-> 0, calls |-> <<>>]
RootTemplate == [kind |-> "root", src |-> "", ver |-> 0, calls |-> <<>>]
\* The layout file includes "content" wherever it wants the view.
FileTemplate(f, v) ==
    [kind |-> "file", src |-> f, ver |-> v,
     calls |-> IF f = "base" THEN <<"content">> ELSE <<>>]
\* From its second version on, the page file carries {{define "content"}}.
DefinesContent(v) == v > 1
DefinedContent(v) == [kind |-> "define", src |-> "page", ver |-> v, calls |-> <<>>]
\* {{define "content"}}{{template "<view>" .}}{{end}}
SynthContent(view) ==
    [kind |-> "synth", src |-> "wrapper", ver |-> 0, calls |-> <<view>>]

Matched(d) == {f \in Files : d[f] # 0}

\* template.New("").Delims(..).Funcs(..).ParseGlob(pattern): an error when
\* no file matches or a file does not parse, else the set of the files.
ParseGlob(d) ==
    IF Matched(d) = {} \/ \E f \in Matched(d) : d[f] = Bad
    THEN [err |-> TRUE, tmpl |-> [n \in TmplNames |-> NoTemplate]]
    ELSE [err |-> FALSE,
          tmpl |-> [n \in TmplNames |->
                      IF n = "" THEN RootTemplate
                      ELSE IF n \in Matched(d) THEN FileTemplate(n, d[n])
                      ELSE IF n = "content" /\ d["page"] # 0 /\ DefinesContent(d["page"])
                           THEN DefinedContent(d["page"])
                      ELSE NoTemplate]]

NewSet(tmpl) == [tmpl |-> tmpl, escaped |-> FALSE]
NoSet == NewSet([n \in TmplNames |-> NoTemplate])

\* The names h.t.Templates() enumerates.
Names(t) == {n \in TmplNames : t.tmpl[n].kind # "none"}
\* h.t.Lookup(name) != nil
Lookup(t, name) == t.tmpl[name].kind # "none"

Written(b) == [src |-> b.src, ver |-> b.ver]

\* What executing a template writes: its own text and that of the templates
\* it includes; not ok when one of them is not in the set.
RECURSIVE Expand(_, _, _)
Expand(tmpl, name, fuel) ==
    LET b == tmpl[name] IN
    IF fuel = 0 \/ b.kind \in {"none", "root"}
    THEN [ok |-> FALSE, text |-> <<>>]
    ELSE IF b.calls = <<>>
    THEN [ok |-> TRUE, text |-> <<Written(b)>>]
    ELSE LET r == Expand(tmpl, b.calls[1], fuel - 1)
         IN  [ok |-> r.ok, text |-> IF r.ok THEN <<Written(b)>> \o r.text ELSE <<>>]

\* t.ExecuteTemplate(w, name, data): the template is looked up, escaped on
\* its first execution (which makes the set one that "has executed"), and
\* run.  Nothing is written when the lookup or the escaping fails.
ExecuteTemplate(t, name) ==
    LET b == t.tmpl[name] IN
    IF b.kind = "none"
    THEN [err |-> "undefined", text |-> <<>>, set |-> t]
    ELSE IF b.kind = "root"
    THEN [err |-> "incomplete", text |-> <<>>, set |-> t]
    ELSE LET r == Expand(t.tmpl, name, Cardinality(TmplNames))
         IN  [err |-> IF r.ok THEN "" ELSE "no such template",
              text |-> r.text,
              set |-> [t EXCEPT !.escaped = TRUE]]


(***************************************************************************)
(* The code's own functions, as functions of what they read.               *)
(***************************************************************************)
\* time.Now(), on a clock that saturates at MaxTime.
Tick(last) == IF last < MaxTime THEN last + 1 ELSE last

\* Render's test for a reload: if h.config.Development { ... }
NeedsReload_always(c) == TRUE

NeedsReload(c) == c.Development

\* reloadIfNeeded, between Lock and Unlock: parse everything anew; on an
\* error return it, else h.t = t and h.lastLoad = time.Now().
reloadIfNeeded_assignsBeforeCheck(t, last, d) ==
    LET parsed == ParseGlob(d) IN
    [err |-> parsed.err, set |-> NewSet(parsed.tmpl), stamp |-> Tick(last)]

reloadIfNeeded(t, last, d) ==
    LET parsed == ParseGlob(d) IN
    IF parsed.err
    THEN [err |-> TRUE, set |-> t, stamp |-> last]
    ELSE [err |-> FALSE, set |-> NewSet(parsed.tmpl), stamp |-> Tick(last)]

\* validateTemplate, between RLock and RUnlock (h.t is never nil after
\* CreateEngine succeeded).
validateTemplate(t, name) ==
    IF Lookup(t, name) THEN "" ELSE "template not found"

\* The deferred RUnlock of validateTemplate, TemplateNames and Validate, and
\* of Translate and CurrentLanguage.
RUnlock(m, p) == [m EXCEPT !.readers = @ \ {p}]
\* The deferred Unlock of reloadIfNeeded and of SetLanguage.
Unlock_omitted(m, p) == m

Unlock(m, p) == [m EXCEPT !.writer = None]

\* RenderWithLayout with a layout: clone the live set (an error once the
\* set has executed), define "content" in the clone, execute the layout in
\* the clone.  t is the live set afterwards.
renderWithLayout_inPlace(t, layout, view) ==
    IF t.escaped
    THEN [err |-> "clone failed", text |-> <<>>, set |-> t]
    ELSE LET tpl == [t EXCEPT !.tmpl["content"] = SynthContent(view)]
             r == ExecuteTemplate(tpl, layout)
         IN  [err |-> r.err, text |-> r.text, set |-> r.set]

renderWithLayout(t, layout, view) ==
    IF t.escaped
    THEN [err |-> "clone failed", text |-> <<>>, set |-> t]
    ELSE LET tpl == NewSet([t.tmpl EXCEPT !["content"] = SynthContent(view)])
             r == ExecuteTemplate(tpl, layout)
         IN  [err |-> r.err, text |-> r.text, set |-> t]

\* Validate, between RLock and RUnlock: the set must clone; no parsed
\* template has a tree without a root.
Validate(t) == IF t.escaped THEN "template clone failed" ELSE ""

\* RenderWithLayout's choice of layout.
EffectiveLayout(c, layout) ==
    IF layout = "" /\ c.DefaultLayout # "" THEN c.DefaultLayout ELSE layout

NoCall == [name |-> "", layout |-> "", op |-> ""]
NoRet == [err |-> "", names |-> {}, has |-> FALSE]

(***************************************************************************)
(* The environment: template files change on disk.                         *)
(***************************************************************************)
\* The calls the claim about development-mode freshness is about: render
\* calls in development mode, from their start to their return.
Watched(p) ==
    cfg.Development /\ call[p].op \in {"Render", "RenderWithLayout"}

EditFile(f, c) ==
    /\ disk[f] # c
    /\ disk' = [disk EXCEPT ![f] = c]
    /\ dirty' = [p \in Procs |-> dirty[p] \/ Watched(p)]
    /\ UNCHANGED <<cfg, ht, lastLoad, mu, pc, call, ret, out, built>>
    /\ UNCHANGED <<i18nVars, dictVars, helper>>

(***************************************************************************)
(* Calls.  A goroutine starts a call, takes its steps, and returns.        *)
(***************************************************************************)
\* Where Render starts: the reload in development mode, else the lookup.
RenderEntry == IF NeedsReload(cfg) THEN "lock" ELSE "rlock"

Begin(p, c, at) ==
    /\ pc[p] = "idle"
    /\ call' = [call EXCEPT ![p] = c]
    /\ pc' = [pc EXCEPT ![p] = at]
    /\ dirty' = [dirty EXCEPT ![p] = FALSE]
    /\ UNCHANGED <<cfg, disk, ht, lastLoad, mu, ret, out, built>>
    /\ UNCHANGED <<i18nVars, dictVars, helper>>

CallRender(p, name) ==
    Begin(p, [name |-> name, layout |-> "", op |-> "Render"], RenderEntry)

\* RenderWithLayout up to its branch: without a layout it is Render of the
\* view, with one it goes on to clone the set.
CallRenderWithLayout(p, layout, view) ==
    LET eff == EffectiveLayout(cfg, layout) IN
    Begin(p, [name |-> view, layout |-> eff, op |-> "RenderWithLayout"],
          IF eff = "" THEN RenderEntry ELSE "clone")

CallHasTemplate(p, name) ==
    Begin(p, [name |-> name, layout |-> "", op |-> "HasTemplate"], "rlock")

CallTemplateNames(p) ==
    Begin(p, [name |-> "", layout |-> "", op |-> "TemplateNames"], "rlock")

CallValidate(p) ==
    Begin(p, [name |-> "", layout |-> "", op |-> "Validate"], "rlock")

\* h.mu.Lock(), first half: the writer announces itself; from here no new
\* reader is admitted.
Lock(p) ==
    /\ pc[p] = "lock"
    /\ mu.writer = None
    /\ mu' = [mu EXCEPT !.writer = p]
    /\ pc' = [pc EXCEPT ![p] = "lockWait"]
    /\ UNCHANGED <<cfg, disk, ht, lastLoad, call, ret, out, built, dirty>>
    /\ UNCHANGED <<i18nVars, dictVars, helper>>

\* h.mu.Lock(), second half: the readers have left, the lock is held.
LockAcquired(p) ==
    /\ pc[p] = "lockWait"
    /\ mu.readers = {}
    /\ pc' = [pc EXCEPT ![p] = "reload"]
    /\ UNCHANGED <<cfg, disk, ht, lastLoad, mu, call, ret, out, built, dirty>>
    /\ UNCHANGED <<i18nVars, dictVars, helper>>

\* The body of reloadIfNeeded and the deferred Unlock; on an error Render
\* returns "failed to reload templates".
Reload(p) ==
    /\ pc[p] = "reload"
    /\ LET r == reloadIfNeeded(ht, lastLoad, disk) IN
        /\ ht' = r.set
        /\ lastLoad' = r.stamp
        /\ mu' = Unlock(mu, p)
        /\ IF r.err
           THEN /\ pc' = [pc EXCEPT ![p] = "done"]
                /\ ret' = [ret EXCEPT ![p] = [NoRet EXCEPT !.err = "failed to reload templates"]]
           ELSE /\ pc' = [pc EXCEPT ![p] = "rlock"]
                /\ UNCHANGED ret
    /\ UNCHANGED <<cfg, disk, call, out, built, dirty>>
    /\ UNCHANGED <<i18nVars, dictVars, helper>>

\* h.mu.RLock(): blocked while a writer holds or awaits the lock.
RLock(p) ==
    /\ pc[p] = "rlock"
    /\ mu.writer = None
    /\ mu' = [mu EXCEPT !.readers = @ \cup {p}]
    /\ pc' = [pc EXCEPT ![p] = "locked"]
    /\ UNCHANGED <<cfg, disk, ht, lastLoad, call, ret, out, built, dirty>>
    /\ UNCHANGED <<i18nVars, dictVars, helper>>

\* validateTemplate under the read lock, for Render (then on to execute)
\* and for HasTemplate (then return).
ValidateTemplate(p) ==
    /\ pc[p] = "locked"
    /\ call[p].op \in {"Render", "RenderWithLayout", "HasTemplate"}
    /\ LET e == validateTemplate(ht, call[p].name) IN
        /\ mu' = RUnlock(mu, p)
        /\ IF call[p].op = "HasTemplate"
           THEN /\ ret' = [ret EXCEPT ![p] = [NoRet EXCEPT !.has = (e = "")]]
                /\ pc' = [pc EXCEPT ![p] = "done"]
           ELSE IF e # ""
           THEN /\ ret' = [ret EXCEPT ![p] = [NoRet EXCEPT !.err = e]]
                /\ pc' = [pc EXCEPT ![p] = "done"]
           ELSE /\ UNCHANGED ret
                /\ pc' = [pc EXCEPT ![p] = "execute"]
    /\ UNCHANGED <<cfg, disk, ht, lastLoad, call, out, built, dirty>>
    /\ UNCHANGED <<i18nVars, dictVars, helper>>

\* TemplateNames under the read lock.
TemplateNames(p) ==
    /\ pc[p] = "locked"
    /\ call[p].op = "TemplateNames"
    /\ mu' = RUnlock(mu, p)
    /\ ret' = [ret EXCEPT ![p] = [NoRet EXCEPT !.names = Names(ht)]]
    /\ pc' = [pc EXCEPT ![p] = "done"]
    /\ UNCHANGED <<cfg, disk, ht, lastLoad, call, out, built, dirty>>
    /\ UNCHANGED <<i18nVars, dictVars, helper>>

\* Validate under the read lock.
ValidateSet(p) ==
    /\ pc[p] = "locked"
    /\ call[p].op = "Validate"
    /\ mu' = RUnlock(mu, p)
    /\ ret' = [ret EXCEPT ![p] = [NoRet EXCEPT !.err = Validate(ht)]]
    /\ pc' = [pc EXCEPT ![p] = "done"]
    /\ UNCHANGED <<cfg, disk, ht, lastLoad, call, out, built, dirty>>
    /\ UNCHANGED <<i18nVars, dictVars, helper>>

\* Where an execution goes next: templates call the i18n helpers when a
\* translation table is configured.
AfterExecute(err) == IF cfg.I18n /\ err = "" THEN "helpers" ELSE "done"

\* The helper calls an executing template may still make.
NoHelper == [fn |-> "", left |-> 0]
HelperCalls(at) == [fn |-> "", left |-> IF at = "helpers" THEN MaxHelperCalls ELSE 0]

\* Render's h.t.ExecuteTemplate(w, name, data): h.t is read here, with no
\* lock held.
Execute(p) ==
    /\ pc[p] = "execute"
    /\ LET r == ExecuteTemplate(ht, call[p].name) IN
        /\ ht' = r.set
        /\ ret' = [ret EXCEPT ![p] = [NoRet EXCEPT !.err = r.err]]
        /\ out' = [out EXCEPT ![p] = r.text]
        /\ helper' = [helper EXCEPT ![p] = HelperCalls(AfterExecute(r.err))]
        /\ pc' = [pc EXCEPT ![p] = AfterExecute(r.err)]
    /\ UNCHANGED <<cfg, disk, lastLoad, mu, call, built, dirty>>
    /\ UNCHANGED <<i18nVars, dictVars>>

\* RenderWithLayout from h.t.Clone() on: h.t is read here, with no lock
\* held; the rest works on the clone.
CloneAndExecute(p) ==
    /\ pc[p] = "clone"
    /\ LET r == renderWithLayout(ht, call[p].layout, call[p].name) IN
        /\ ht' = r.set
        /\ ret' = [ret EXCEPT ![p] = [NoRet EXCEPT !.err = r.err]]
        /\ out' = [out EXCEPT ![p] = r.text]
        /\ helper' = [helper EXCEPT ![p] = HelperCalls(AfterExecute(r.err))]
        /\ pc' = [pc EXCEPT ![p] = AfterExecute(r.err)]
    /\ UNCHANGED <<cfg, disk, lastLoad, mu, call, built, dirty>>
    /\ UNCHANGED <<i18nVars, dictVars>>

\* The caller takes the result; the goroutine is free for its next call.
Return(p) ==
    /\ pc[p] = "done"
    /\ pc' = [pc EXCEPT ![p] = "idle"]
    /\ call' = [call EXCEPT ![p] = NoCall]
    /\ ret' = [ret EXCEPT ![p] = NoRet]
    /\ out' = [out EXCEPT ![p] = <<>>]
    /\ dirty' = [dirty EXCEPT ![p] = FALSE]
    /\ UNCHANGED <<cfg, disk, ht, lastLoad, mu, built>>
    /\ UNCHANGED <<i18nVars, dictVars, helper>>

(***************************************************************************)
(* The engine after CreateEngine succeeded, without a translation table.   *)
(***************************************************************************)
NoI18n == [DefaultLang |-> "", Translations |-> "none", currentLang |-> ""]
NoICall == [op |-> "", key |-> "", args |-> <<>>, lang |-> "", res |-> ""]
FreeLock == [readers |-> {}, writer |-> None]

InitOther ==
    /\ i18n = NoI18n
    /\ imu = FreeLock
    /\ icall = NoICall
    /\ values = <<>>
    /\ dres = [err |-> "", dict |-> <<>>]

InitEngine(useI18n) ==
    /\ cfg \in [Development : BOOLEAN, DefaultLayout : Layouts, I18n : {useI18n}]
    /\ disk \in {d \in [Files -> 0..MaxVer] :
                    (\A f \in Files : d[f] \in Content(f)) /\ ~ParseGlob(d).err}
    /\ ht = NewSet(ParseGlob(disk).tmpl)
    /\ built = IF cfg.Development THEN NoSet ELSE ht
    /\ lastLoad = 0
    /\ mu = FreeLock
    /\ pc = [p \in Procs |-> "idle"]
    /\ call = [p \in Procs |-> NoCall]
    /\ ret = [p \in Procs |-> NoRet]
    /\ out = [p \in Procs |-> <<>>]
    /\ dirty = [p \in Procs |-> FALSE]
    /\ helper = [p \in Procs |-> NoHelper]

Init == InitEngine(FALSE) /\ InitOther

Step(p) ==
    \/ Lock(p)
    \/ LockAcquired(p)
    \/ Reload(p)
    \/ RLock(p)
    \/ ValidateTemplate(p)
    \/ TemplateNames(p)
    \/ ValidateSet(p)
    \/ Execute(p)
    \/ CloneAndExecute(p)
    \/ Return(p)

Start(p) ==
    \/ \E n \in RenderNames : CallRender(p, n)
    \/ \E l \in Layouts, v \in Views : CallRenderWithLayout(p, l, v)
    \/ \E n \in RenderNames : CallHasTemplate(p, n)
    \/ CallTemplateNames(p)
    \/ CallValidate(p)

Environment == \E f \in Files : \E c \in Content(f) : EditFile(f, c)

Next ==
    \/ \E p \in Procs : Start(p)
    \/ \E p \in Procs : Step(p)
    \/ Environment

Spec == Init /\ [][Next]_vars


(***************************************************************************)
(* The translation table (I18nConfig).                                     *)
(***************************************************************************)
\* The most arguments a Translate call passes after the key.
MaxArgs == 2

Langs == {"", "en", "fr", "de"}
Keys == {"greeting", "count", "bye", "missing"}
\* Format strings, cut into literal text and verbs.
Translations ==
    [en |-> [greeting |-> <<"Hello, ", "%s", "!">>,
             count |-> <<"%d", " items for ", "%s">>,
             bye |-> <<"Bye">>],
     fr |-> [greeting |-> <<"Bonjour, ", "%s">>,
             bye |-> <<"A 100", "%%">>]]
\* Arguments: a Go value with its dynamic type.
ArgVals == {[typ |-> "string", val |-> "Ada"], [typ |-> "int", val |-> "7"]}

RECURSIVE SeqsUpTo(_, _)
SeqsUpTo(S, n) ==
    IF n = 0 THEN {<<>>}
    ELSE LET shorter == SeqsUpTo(S, n - 1)
         IN  shorter \cup {Append(q, x) : q \in {r \in shorter : Len(r) = n - 1}, x \in S}

RECURSIVE Join(_)
Join(toks) == IF toks = <<>> THEN "" ELSE Head(toks) \o Join(Tail(toks))

IsVerb(tok) == tok \in {"%s", "%d"}

\* One verb applied to one operand, as package fmt prints it.
FormatArg(verb, a) ==
    IF verb = "%s"
    THEN IF a.typ = "string" THEN a.val ELSE "%!s(" \o a.typ \o "=" \o a.val \o ")"
    ELSE IF a.typ = "int" THEN a.val ELSE "%!d(" \o a.typ \o "=" \o a.val \o ")"

RECURSIVE Extra(_)
Extra(args) ==
    IF args = <<>> THEN ""
    ELSE Head(args).typ \o "=" \o Head(args).val
         \o (IF Tail(args) = <<>> THEN "" ELSE ", " \o Extra(Tail(args)))

\* fmt.Sprintf(format, args...): verbs take the operands in order, a verb
\* without an operand prints %!v(MISSING), operands left over are listed
\* in %!(EXTRA ...).  It returns a string for every input.
RECURSIVE Sprintf(_, _)
Sprintf(toks, args) ==
    IF toks = <<>>
    THEN IF args = <<>> THEN "" ELSE "%!(EXTRA " \o Extra(args) \o ")"
    ELSE LET tok == Head(toks) IN
         IF IsVerb(tok)
         THEN IF args = <<>>
              THEN "%!" \o (IF tok = "%s" THEN "s" ELSE "d") \o "(MISSING)"
                   \o Sprintf(Tail(toks), args)
              ELSE FormatArg(tok, Head(args)) \o Sprintf(Tail(toks), Tail(args))
         ELSE (IF tok = "%%" THEN "%" ELSE tok) \o Sprintf(Tail(toks), args)

\* Translate, between RLock and RUnlock.
Translate_noDefault(i, key, args) ==
    LET lang == i.currentLang IN
    IF lang \notin DOMAIN i.Translations THEN key
    ELSE IF key \notin DOMAIN i.Translations[lang] THEN key
    ELSE IF Len(args) > 0 THEN Sprintf(i.Translations[lang][key], args)
    ELSE Join(i.Translations[lang][key])

Translate(i, key, args) ==
    LET lang == IF i.currentLang = "" THEN i.DefaultLang ELSE i.currentLang IN
    IF lang \notin DOMAIN i.Translations THEN key
    ELSE IF key \notin DOMAIN i.Translations[lang] THEN key
    ELSE IF Len(args) > 0 THEN Sprintf(i.Translations[lang][key], args)
    ELSE Join(i.Translations[lang][key])

\* SetLanguage, between Lock and Unlock.
SetLanguage(i, lang) == [i EXCEPT !.currentLang = lang]

\* CurrentLanguage, between RLock and RUnlock.
CurrentLanguage_orDefault(i) ==
    IF i.currentLang = "" THEN i.DefaultLang ELSE i.currentLang

CurrentLanguage(i) == i.currentLang

\* One caller at a time: each call takes i.mu, works, and releases it.
CallSetLanguage(lang) ==
    /\ i18n' = SetLanguage(i18n, lang)
    /\ icall' = [op |-> "SetLanguage", key |-> "", args |-> <<>>, lang |-> lang, res |-> ""]
    /\ UNCHANGED <<imu, engineVars, dictVars>>

CallTranslate(key, args) ==
    /\ icall' = [op |-> "Translate", key |-> key, args |-> args, lang |-> "",
                 res |-> Translate(i18n, key, args)]
    /\ UNCHANGED <<i18n, imu, engineVars, dictVars>>

CallCurrentLanguage ==
    /\ icall' = [op |-> "CurrentLanguage", key |-> "", args |-> <<>>, lang |-> "",
                 res |-> CurrentLanguage(i18n)]
    /\ UNCHANGED <<i18n, imu, engineVars, dictVars>>

\* An engine at rest, for the specifications of the helpers alone.
EngineAtRest ==
    /\ cfg = [Development |-> FALSE, DefaultLayout |-> "", I18n |-> TRUE]
    /\ disk = [f \in Files |-> 1]
    /\ ht = NewSet(ParseGlob(disk).tmpl)
    /\ built = ht
    /\ lastLoad = 0
    /\ mu = FreeLock
    /\ pc = [p \in Procs |-> "idle"]
    /\ call = [p \in Procs |-> NoCall]
    /\ ret = [p \in Procs |-> NoRet]
    /\ out = [p \in Procs |-> <<>>]
    /\ dirty = [p \in Procs |-> FALSE]
    /\ helper = [p \in Procs |-> NoHelper]

InitTable ==
    /\ i18n \in [DefaultLang : {"en", "de"}, Translations : {Translations},
                 currentLang : {""}]
    /\ imu = FreeLock
    /\ icall = NoICall

InitI18n ==
    /\ EngineAtRest
    /\ InitTable
    /\ values = <<>>
    /\ dres = [err |-> "", dict |-> <<>>]

NextI18n ==
    \/ \E lang \in Langs : CallSetLanguage(lang)
    \/ \E key \in Keys, args \in SeqsUpTo(ArgVals, MaxArgs) : CallTranslate(key, args)
    \/ CallCurrentLanguage

SpecI18n == InitI18n /\ [][NextI18n]_vars

(***************************************************************************)
(* The dict helper of defaultFuncs.                                        *)
(***************************************************************************)
\* The longest argument list handed to dict.
MaxDictArgs == 4

DictArgs == {[typ |-> "string", val |-> "k1"], [typ |-> "string", val |-> "k2"],
             [typ |-> "int", val |-> "1"], [typ |-> "int", val |-> "2"]}

EmptyDict == [k \in {} |-> [typ |-> "", val |-> ""]]

\* dict[key] = value on a Go map: a key already there is overwritten.
Put_keepFirst(d, k, v) ==
    IF k \in DOMAIN d THEN d
    ELSE [x \in DOMAIN d \cup {k} |-> IF x = k THEN v ELSE d[x]]

Put(d, k, v) == [x \in DOMAIN d \cup {k} |-> IF x = k THEN v ELSE d[x]]

\* The loop of dict, from index i on (1-based here, 0-based in the code).
RECURSIVE DictLoop(_, _, _)
DictLoop(vs, i, d) ==
    IF i > Len(vs) THEN [err |-> "", dict |-> d]
    ELSE IF vs[i].typ # "string"
    THEN [err |-> "dict keys must be strings", dict |-> EmptyDict]
    ELSE DictLoop(vs, i + 2, Put(d, vs[i].val, vs[i + 1]))

dict(vs) ==
    IF Len(vs) % 2 # 0
    THEN [err |-> "invalid dict call", dict |-> EmptyDict]
    ELSE DictLoop(vs, 1, EmptyDict)

NotCalled == [err |-> "not called", dict |-> EmptyDict]

CallDict ==
    /\ dres = NotCalled
    /\ dres' = dict(values)
    /\ UNCHANGED <<values, engineVars, i18nVars>>

InitDict ==
    /\ EngineAtRest
    /\ i18n = NoI18n
    /\ imu = FreeLock
    /\ icall = NoICall
    /\ values \in SeqsUpTo(DictArgs, MaxDictArgs)
    /\ dres = NotCalled

NextDict == CallDict

SpecDict == InitDict /\ [][NextDict]_vars


(***************************************************************************)
(* The engine with a translation table: executing templates call the       *)
(* helpers t, setLang and currentLang, which take the table's lock.  The   *)
(* text a helper returns is part of the page text out already records.     *)
(***************************************************************************)
HelperFns == {"t", "currentLang", "setLang"}
\* The language templates switch to.
TemplateLangs == {"fr"}

\* The executing template reaches a helper call.
TemplateCalls(p, fn) ==
    /\ pc[p] = "helpers"
    /\ helper[p].left > 0
    /\ helper' = [helper EXCEPT ![p] = [fn |-> fn, left |-> @.left - 1]]
    /\ pc' = [pc EXCEPT ![p] = IF fn = "setLang" THEN "ilock" ELSE "irlock"]
    /\ UNCHANGED <<cfg, disk, ht, lastLoad, mu, call, ret, out, built, dirty>>
    /\ UNCHANGED <<i18nVars, dictVars>>

\* The executing template ends; the render call returns.
TemplateEnds(p) ==
    /\ pc[p] = "helpers"
    /\ helper' = [helper EXCEPT ![p] = NoHelper]
    /\ pc' = [pc EXCEPT ![p] = "done"]
    /\ UNCHANGED <<cfg, disk, ht, lastLoad, mu, call, ret, out, built, dirty>>
    /\ UNCHANGED <<i18nVars, dictVars>>

\* i.mu.Lock() of SetLanguage, in the two halves of Lock.
ILock(p) ==
    /\ pc[p] = "ilock"
    /\ imu.writer = None
    /\ imu' = [imu EXCEPT !.writer = p]
    /\ pc' = [pc EXCEPT ![p] = "ilockWait"]
    /\ UNCHANGED <<cfg, disk, ht, lastLoad, mu, call, ret, out, built, dirty, helper>>
    /\ UNCHANGED <<i18n, icall, dictVars>>

ILockAcquired(p) ==
    /\ pc[p] = "ilockWait"
    /\ imu.readers = {}
    /\ pc' = [pc EXCEPT ![p] = "iwrite"]
    /\ UNCHANGED <<cfg, disk, ht, lastLoad, mu, call, ret, out, built, dirty, helper>>
    /\ UNCHANGED <<i18nVars, dictVars>>

\* SetLanguage's assignment and its deferred Unlock.
HelperSetLanguage(p, lang) ==
    /\ pc[p] = "iwrite"
    /\ i18n' = SetLanguage(i18n, lang)
    /\ imu' = Unlock(imu, p)
    /\ pc' = [pc EXCEPT ![p] = "helpers"]
    /\ UNCHANGED <<cfg, disk, ht, lastLoad, mu, call, ret, out, built, dirty, helper>>
    /\ UNCHANGED <<icall, dictVars>>

\* i.mu.RLock() of Translate and CurrentLanguage.
IRLock(p) ==
    /\ pc[p] = "irlock"
    /\ imu.writer = None
    /\ imu' = [imu EXCEPT !.readers = @ \cup {p}]
    /\ pc' = [pc EXCEPT ![p] = "iread"]
    /\ UNCHANGED <<cfg, disk, ht, lastLoad, mu, call, ret, out, built, dirty, helper>>
    /\ UNCHANGED <<i18n, icall, dictVars>>

\* Translate's or CurrentLanguage's read and its deferred RUnlock.
HelperRead(p) ==
    /\ pc[p] = "iread"
    /\ imu' = RUnlock(imu, p)
    /\ pc' = [pc EXCEPT ![p] = "helpers"]
    /\ UNCHANGED <<cfg, disk, ht, lastLoad, mu, call, ret, out, built, dirty, helper>>
    /\ UNCHANGED <<i18n, icall, dictVars>>

HelperStep(p) ==
    \/ \E fn \in HelperFns : TemplateCalls(p, fn)
    \/ TemplateEnds(p)
    \/ ILock(p)
    \/ ILockAcquired(p)
    \/ \E lang \in TemplateLangs : HelperSetLanguage(p, lang)
    \/ IRLock(p)
    \/ HelperRead(p)

\* The engine was built when both files were well-formed; since then the
\* page file has stayed, gone, or been broken, and no file changes while
\* the calls run.
InitLive ==
    /\ cfg \in [Development : BOOLEAN, DefaultLayout : {""}, I18n : {TRUE}]
    /\ disk \in {d \in [Files -> 0..Bad] : d["base"] = 1 /\ d["page"] \in {0, 1, Bad}}
    /\ ht = NewSet(ParseGlob([f \in Files |-> 1]).tmpl)
    /\ built = IF cfg.Development THEN NoSet ELSE ht
    /\ lastLoad = 0
    /\ mu = FreeLock
    /\ pc = [p \in Procs |-> "idle"]
    /\ call = [p \in Procs |-> NoCall]
    /\ ret = [p \in Procs |-> NoRet]
    /\ out = [p \in Procs |-> <<>>]
    /\ dirty = [p \in Procs |-> FALSE]
    /\ helper = [p \in Procs |-> NoHelper]
    /\ i18n = [DefaultLang |-> "en", Translations |-> Translations, currentLang |-> ""]
    /\ imu = FreeLock
    /\ icall = NoICall
    /\ values = <<>>
    /\ dres = [err |-> "", dict |-> <<>>]

NextLive ==
    \/ \E p \in Procs : Start(p)
    \/ \E p \in Procs : Step(p)
    \/ \E p \in Procs : HelperStep(p)

\* The scheduler runs every goroutine that can take a step, and a
\* goroutine waiting for a lock gets it when the lock is free again and
\* again: RWMutex.Unlock admits the readers that wait before the next
\* writer, a pending Lock holds new readers back, and sync.Mutex hands the
\* lock to a starved waiter.  At each point of its call a goroutine has one
\* kind of step, so strong fairness of its steps says this of each.
Fairness == \A p \in Procs : SF_vars(Step(p) \/ HelperStep(p))

SpecLive == InitLive /\ [][NextLive]_vars /\ Fairness


(***************************************************************************)
(* The claims.                                                             *)
(***************************************************************************)
IsRender(p) == call[p].op \in {"Render", "RenderWithLayout"}
\* The goroutine takes the step that reads h.t outside validateTemplate:
\* Render's ExecuteTemplate or RenderWithLayout's Clone.
ReadsSetUnlocked(p) == pc[p] \in {"clone", "execute"} /\ pc'[p] # pc[p]
\* The goroutine is inside reloadIfNeeded with the lock held exclusively.
HoldsExclusive(q) == pc[q] = "reload"

\* C1: in development mode no call reads the template-set reference while
\* another call holds the lock exclusively to replace it (every read is
\* made under the shared lock).
C1_NoReadWhileReplacing ==
    [][\A p \in Procs :
          (cfg.Development /\ ReadsSetUnlocked(p))
              => \A q \in Procs \ {p} : ~HoldsExclusive(q)]_vars

\* What a render call wrote shows the files as they are on disk now.
ShowsDisk(p) ==
    \A k \in 1..Len(out[p]) :
        out[p][k].src \in Files => out[p][k].ver = disk[out[p][k].src]

\* C2: in development mode a render call (Render, or RenderWithLayout with
\* or without a layout) that succeeded, with no file changed since it
\* began, wrote the content the files have: it rebuilt the set from them.
C2_DevRenderShowsDisk ==
    \A p \in Procs :
        (cfg.Development /\ pc[p] = "done" /\ IsRender(p) /\ ret[p].err = ""
            /\ ~dirty[p])
            => ShowsDisk(p)

\* The same for the calls that go through Render: it holds of them.
DevPlainRenderShowsDisk ==
    \A p \in Procs :
        (cfg.Development /\ pc[p] = "done" /\ IsRender(p) /\ ret[p].err = ""
            /\ call[p].layout = "" /\ ~dirty[p])
            => ShowsDisk(p)

LeavesReload(p) == pc[p] = "reload" /\ pc'[p] # "reload"

\* C3: when the reload inside Render fails, Render returns the reload
\* error, nothing is written, and h.t and h.lastLoad are what they were;
\* h.t is replaced only by a reload whose parse succeeded, with its result.
C3_FailedReloadKeepsSet ==
    [][/\ \A p \in Procs :
            (LeavesReload(p) /\ ParseGlob(disk).err)
                => /\ pc'[p] = "done"
                   /\ ret'[p].err = "failed to reload templates"
                   /\ out'[p] = <<>>
                   /\ ht' = ht
                   /\ lastLoad' = lastLoad
       /\ (ht'.tmpl # ht.tmpl \/ lastLoad' # lastLoad)
            => \E p \in Procs :
                  /\ LeavesReload(p)
                  /\ ~ParseGlob(disk).err
                  /\ ht'.tmpl = ParseGlob(disk).tmpl]_vars

C3_Witness ==
    \E p \in Procs :
        /\ pc[p] = "done"
        /\ ret[p].err = "failed to reload templates"
        /\ lastLoad > 0

\* C4: a Render call never executes a name that is not in the set it
\* executes against: such a call ends in "template not found", not in the
\* executor's own lookup error.
C4_MissingNameIsNotFound ==
    \A p \in Procs :
        (pc[p] = "done" /\ IsRender(p) /\ call[p].layout = "")
            => ret[p].err # "undefined"

\* C5: the step of RenderWithLayout that clones and executes leaves the
\* live set as it is, whether it succeeds or fails, and "content" is in
\* the live set only as a source file defined it.
C5_LayoutKeepsCanonicalSet ==
    [][/\ \A p \in Procs :
            (pc[p] = "clone" /\ pc'[p] # "clone")
                => ht'.tmpl = ht.tmpl /\ Names(ht') = Names(ht)
       /\ ht'.tmpl["content"].kind \in {"none", "define"}
       /\ ~cfg.Development => Names(ht') = Names(built')]_vars

C5_Witness ==
    /\ ~cfg.Development
    /\ \E p \in Procs :
          /\ pc[p] = "done" /\ call[p].layout # "" /\ ret[p].err = ""
          /\ Len(out[p]) > 1
    /\ \E q \in Procs :
          /\ pc[q] = "done" /\ call[q].op = "TemplateNames"
          /\ "content" \notin ret[q].names

\* C6: in static mode the set built at construction is never replaced, and
\* TemplateNames and HasTemplate answer from it whatever the files became.
C6_StaticSetNeverReplaced ==
    ~cfg.Development =>
        /\ ht.tmpl = built.tmpl
        /\ \A p \in Procs :
              pc[p] = "done" =>
                  /\ call[p].op = "TemplateNames" => ret[p].names = Names(built)
                  /\ call[p].op = "HasTemplate" => ret[p].has = Lookup(built, call[p].name)

C6_Witness ==
    /\ ~cfg.Development
    /\ ht.escaped
    /\ ~ParseGlob(disk).err
    /\ Names(NewSet(ParseGlob(disk).tmpl)) # Names(built)
    /\ \E p \in Procs : pc[p] = "done" /\ call[p].op = "TemplateNames"
    /\ \E q \in Procs : pc[q] = "done" /\ call[q].op = "HasTemplate" /\ ~ret[q].has

\* C7: under fair scheduling every call returns: no goroutine waits for
\* ever on the template-set lock or on the translation-table lock.
C7_EveryCallReturns ==
    \A p \in Procs : (pc[p] # "idle") ~> (pc[p] = "done")

C7_Witness ==
    \E p \in Procs, q \in Procs :
        /\ pc[p] = "rlock" /\ pc[q] = "reload"
        /\ i18n.currentLang = "fr"

(***************************************************************************)
(* Claims about the translation table.                                     *)
(***************************************************************************)
\* The language a lookup is made in.
LanguageInEffect == IF i18n.currentLang = "" THEN i18n.DefaultLang ELSE i18n.currentLang

Known(lang, key) ==
    lang \in DOMAIN Translations /\ key \in DOMAIN Translations[lang]

\* The operand the k-th token of a format takes, counting verbs.
ArgIndex(toks, k) == Cardinality({j \in 1..k : IsVerb(toks[j])})

\* The arguments are those the format asks for, in number and in type.
ArgsFit(toks, args) ==
    /\ ArgIndex(toks, Len(toks)) = Len(args)
    /\ \A k \in 1..Len(toks) :
          IsVerb(toks[k]) =>
              args[ArgIndex(toks, k)].typ = (IF toks[k] = "%s" THEN "string" ELSE "int")

\* The format with each verb replaced by its argument.
Substituted(toks, args) ==
    Join([k \in 1..Len(toks) |->
            IF IsVerb(toks[k]) THEN args[ArgIndex(toks, k)].val
            ELSE IF toks[k] = "%%" THEN "%" ELSE toks[k]])

\* C8: Translate returns the format string of the key in the language in
\* effect, with the arguments substituted when arguments are given, and
\* the key itself when the language or the key is unknown.
C8_TranslateTotal ==
    icall.op = "Translate" =>
        IF Known(LanguageInEffect, icall.key)
        THEN LET toks == Translations[LanguageInEffect][icall.key] IN
             /\ icall.args = <<>> => icall.res = Join(toks)
             /\ (icall.args # <<>> /\ ArgsFit(toks, icall.args))
                    => icall.res = Substituted(toks, icall.args)
             /\ icall.res # icall.key
        ELSE icall.res = icall.key

C8_Witness ==
    /\ icall.op = "Translate"
    /\ i18n.currentLang = ""
    /\ i18n.DefaultLang = "en"
    /\ icall.key = "greeting"
    /\ icall.args = <<[typ |-> "string", val |-> "Ada"]>>
    /\ icall.res = "Hello, Ada!"

\* C10 as claimed: CurrentLanguage returns the language Translate looks
\* up in, the default language when no current language is in effect.
C10_CurrentIsLanguageInEffect ==
    icall.op = "CurrentLanguage" => icall.res = LanguageInEffect

\* C10 as amended: CurrentLanguage returns the current-language field as
\* SetLanguage last set it, empty when it was never set; that is the
\* language Translate looks up in exactly when it is not empty, and when
\* it is empty Translate looks up in the default language.
C10_CurrentIsFieldAsSet ==
    /\ icall.op = "SetLanguage" => i18n.currentLang = icall.lang
    /\ icall.op = "CurrentLanguage" =>
          /\ icall.res = i18n.currentLang
          /\ icall.res # "" => icall.res = LanguageInEffect
          /\ icall.res = "" => LanguageInEffect = i18n.DefaultLang

C10_Witness ==
    /\ icall.op = "CurrentLanguage"
    /\ icall.res = ""
    /\ LanguageInEffect = "en"

(***************************************************************************)
(* Claims about dict.                                                      *)
(***************************************************************************)
\* An even-length list with a string at every key position.
ValidDictArgs(vs) ==
    /\ Len(vs) % 2 = 0
    /\ \A k \in 1..(Len(vs) \div 2) : vs[2 * k - 1].typ = "string"

PairKey(vs, k) == vs[2 * k - 1].val
PairValue(vs, k) == vs[2 * k]
Pairs(vs) == 1..(Len(vs) \div 2)
\* The last pair with the key of pair k.
LastWithKey(vs, k) ==
    CHOOSE j \in Pairs(vs) :
        /\ PairKey(vs, j) = PairKey(vs, k)
        /\ \A m \in Pairs(vs) : PairKey(vs, m) = PairKey(vs, k) => m <= j

\* C9 as claimed: for a valid list dict returns len/2 entries, and the
\* entry of every key position is the value after it.
C9_DictHoldsEveryPair ==
    (dres # NotCalled /\ ValidDictArgs(values)) =>
        /\ dres.err = ""
        /\ Cardinality(DOMAIN dres.dict) = Len(values) \div 2
        /\ \A k \in Pairs(values) : dres.dict[PairKey(values, k)] = PairValue(values, k)

\* C9 as amended: for a valid list dict returns one entry per distinct
\* key, the entry of a key being the value of the last pair with that key;
\* so len/2 entries, each the value after its key, when no key repeats.
C9_DictLastPairWins ==
    (dres # NotCalled /\ ValidDictArgs(values)) =>
        /\ dres.err = ""
        /\ DOMAIN dres.dict = {PairKey(values, k) : k \in Pairs(values)}
        /\ \A k \in Pairs(values) :
              dres.dict[PairKey(values, k)] = PairValue(values, LastWithKey(values, k))
        /\ (\A j, k \in Pairs(values) : PairKey(values, j) = PairKey(values, k) => j = k)
              => /\ Cardinality(DOMAIN dres.dict) = Len(values) \div 2
                 /\ \A k \in Pairs(values) :
                       dres.dict[PairKey(values, k)] = PairValue(values, k)

C9_Witness ==
    /\ dres # NotCalled
    /\ dres.err = ""
    /\ Len(values) = 4
    /\ PairKey(values, 1) = PairKey(values, 2)
    /\ PairValue(values, 1) # PairValue(values, 2)
    /\ dres.dict[PairKey(values, 1)] = PairValue(values, 2)

=============================================================================
